---- MODULE Spec2Model ----
(***************************************************************************)
(* A model of the DNS wire-format codec of rust-dns-client: the header     *)
(* bit packing (message/header.rs), the question/name encoder and the      *)
(* label parser (message/question.rs), message assembly                    *)
(* (message/message.rs), the bit parsers (message/parser.rs) and the       *)
(* closed enumerations (message/opcode.rs, message/response_code.rs,       *)
(* rr/record_type.rs, rr/record_class.rs).                                 *)
(*                                                                         *)
(* Bytes are integers 0..255, bits are integers 0..1, a string is the      *)
(* sequence of its characters' code points, a bit vector (BitVec<_, Msb0>) *)
(* is a sequence of bits in push order.  A call's outcome is a record      *)
(* whose field kind is "ok" (a value was returned), "err" (an Err value    *)
(* was returned to the caller) or "panic" (unwrap/assert!/expect aborted). *)
(***************************************************************************)
EXTENDS Integers, Sequences, FiniteSets

VARIABLES
    pc,      \* which call returned last
    name,    \* the domain_name handed to Message::new
    msg,     \* the Message that Message::new returned
    hdr,     \* the MessageHeader handed to MessageHeader::as_bitvec
    q,       \* the Question handed to Question::as_bitvec
    bv,      \* the bit vector the last as_bitvec returned
    buf,     \* the bytes on the wire: as_vec's output or the received datagram
    ret,     \* the outcome of the last call: [kind, err]
    dhdr,    \* the header MessageHeader::try_from returned
    dlabels, \* the labels Question::parse_labels_then_zero returned
    drest,   \* the cursor Question::parse_labels_then_zero returned
    conv,    \* the last conversion between an enum's variant and its code
    dq,      \* the Question that Question::deserialize returned
    eret     \* the outcome of Entry::as_bitvec: [kind, err, bits]

vars ==
    <<pc, name, msg, hdr, q, bv, buf, ret, dhdr, dlabels, drest, conv, dq,
      eret>>

(***************************************************************************)
(* Bounds of the model.                                                    *)
(***************************************************************************)
\* the generated long names have at most this many labels
MaxLabels == 5
\* a received datagram carries at most this many bytes after the header
MaxExtra == 1

(***************************************************************************)
(* Program constants.                                                      *)
(***************************************************************************)
EXPECTED_HEADER_SIZE == 12
MAX_NAME_BYTES == 255
Message_MAX_LABEL_BYTES == 63
Question_MAX_LABEL_BYTES == 64

(***************************************************************************)
(* Bits, bytes and strings.                                                *)
(***************************************************************************)
Pow2(n) == 2 ^ n

\* v.view_bits::<Msb0>() of a w-bit integer: most significant bit first
view_bits(v, w) == [i \in 1..w |-> (v \div Pow2(w - i)) % 2]

\* a sequence of w-bit values laid out as one bit sequence, each Msb0
ExtendEach(vals, w) ==
    [i \in 1..(w * Len(vals)) |->
        (vals[((i - 1) \div w) + 1] \div Pow2(w - 1 - ((i - 1) % w))) % 2]

\* the bit of byte sequence b at bit position p (0-based, Msb0 in each byte)
BitAt(b, p) == (b[(p \div 8) + 1] \div Pow2(7 - (p % 8))) % 2

\* the unsigned value of the n bits of b from bit position p, first bit highest
RECURSIVE BitsValue(_, _, _)
BitsValue(b, p, n) ==
    IF n = 0 THEN 0 ELSE 2 * BitsValue(b, p, n - 1) + BitAt(b, p + n - 1)

\* the unsigned value of a bit sequence, first bit highest
RECURSIVE SeqValue(_)
SeqValue(s) ==
    IF Len(s) = 0 THEN 0
    ELSE 2 * SeqValue(SubSeq(s, 1, Len(s) - 1)) + s[Len(s)]

\* impl Read for BitVec: whole chunks of 8 bits, each loaded big-endian;
\* bits after the last whole chunk are left unread
read_to_end(bits) ==
    [k \in 1..(Len(bits) \div 8) |-> SeqValue(SubSeq(bits, 8 * k - 7, 8 * k))]

\* str::len: the number of bytes of the string in UTF-8 (one byte below
\* U+0080, two below U+0800, three below U+10000, four above)
str_len(s) ==
    Len(s) + Cardinality({i \in 1..Len(s) : s[i] >= 128})
           + Cardinality({i \in 1..Len(s) : s[i] >= 2048})
           + Cardinality({i \in 1..Len(s) : s[i] >= 65536})

Dot == 46

\* str::split('.'): the pieces between the dots, empty pieces included
split(s) ==
    LET IsDot(i) == s[i] = Dot
        dots == SelectSeq([i \in 1..Len(s) |-> i], IsDot)
        m == Len(dots)
    IN  [k \in 1..(m + 1) |->
            SubSeq(s, IF k = 1 THEN 1 ELSE dots[k - 1] + 1,
                      IF k = m + 1 THEN Len(s) ELSE dots[k] - 1)]

(***************************************************************************)
(* message/parser.rs: the bit cursor.  A BitInput is [b: bytes, o: offset].*)
(***************************************************************************)
\* nom::bits::complete::take(n): Eof when fewer than n bits remain
take(i, n) ==
    IF Len(i.b) * 8 < n + i.o
    THEN [ok |-> FALSE, val |-> 0, rest |-> i]
    ELSE [ok |-> TRUE,
          val |-> BitsValue(i.b, i.o, n),
          rest |-> [b |-> SubSeq(i.b, ((n + i.o) \div 8) + 1, Len(i.b)),
                    o |-> (n + i.o) % 8]]

take_nibble(i) == take(i, 4)

\* take_u16 reading the low byte first
take_u16_low_first(i) ==
    LET r == take(i, 16)
    IN  [ok |-> r.ok, val |-> (r.val % 256) * 256 + (r.val \div 256),
         rest |-> r.rest]

take_u16(i) == take(i, 16)

take_bit(i) ==
    LET r == take(i, 1)
    IN  [ok |-> r.ok, val |-> (r.val # 0), rest |-> r.rest]

(***************************************************************************)
(* message/opcode.rs, message/response_code.rs                             *)
(***************************************************************************)
Opcodes == {"Query", "InverseQuery", "Status"}

Opcode_into(op) ==
    CASE op = "Query" -> 0
      [] op = "InverseQuery" -> 1
      [] op = "Status" -> 2

Opcode_as_bitvec(op) ==
    CASE op = "Query" -> <<0, 0, 0, 0>>
      [] op = "InverseQuery" -> <<0, 0, 0, 1>>
      [] op = "Status" -> <<0, 0, 1, 0>>

Opcode_try_from(value) ==
    CASE value = 0 -> [ok |-> TRUE, val |-> "Query"]
      [] value = 1 -> [ok |-> TRUE, val |-> "InverseQuery"]
      [] value = 2 -> [ok |-> TRUE, val |-> "Status"]
      [] OTHER -> [ok |-> FALSE, val |-> "none"]

ResponseCodes ==
    {"NoError", "FormatError", "ServerFailure", "NameError", "NotImplemented",
     "Refused"}

\* as_bitvec with the patterns of NameError and NotImplemented exchanged
ResponseCode_as_bitvec_drifted(rc) ==
    CASE rc = "NoError" -> <<0, 0, 0, 0>>
      [] rc = "FormatError" -> <<0, 0, 0, 1>>
      [] rc = "ServerFailure" -> <<0, 0, 1, 0>>
      [] rc = "NameError" -> <<0, 1, 0, 0>>
      [] rc = "NotImplemented" -> <<0, 0, 1, 1>>
      [] rc = "Refused" -> <<0, 1, 0, 1>>

ResponseCode_as_bitvec(rc) ==
    CASE rc = "NoError" -> <<0, 0, 0, 0>>
      [] rc = "FormatError" -> <<0, 0, 0, 1>>
      [] rc = "ServerFailure" -> <<0, 0, 1, 0>>
      [] rc = "NameError" -> <<0, 0, 1, 1>>
      [] rc = "NotImplemented" -> <<0, 1, 0, 0>>
      [] rc = "Refused" -> <<0, 1, 0, 1>>

ResponseCode_try_from(value) ==
    CASE value = 0 -> [ok |-> TRUE, val |-> "NoError"]
      [] value = 1 -> [ok |-> TRUE, val |-> "FormatError"]
      [] value = 2 -> [ok |-> TRUE, val |-> "ServerFailure"]
      [] value = 3 -> [ok |-> TRUE, val |-> "NameError"]
      [] value = 4 -> [ok |-> TRUE, val |-> "NotImplemented"]
      [] value = 5 -> [ok |-> TRUE, val |-> "Refused"]
      [] OTHER -> [ok |-> FALSE, val |-> "none"]

ResponseCode_into(rc) ==
    CASE rc = "NoError" -> 0
      [] rc = "FormatError" -> 1
      [] rc = "ServerFailure" -> 2
      [] rc = "NameError" -> 3
      [] rc = "NotImplemented" -> 4
      [] rc = "Refused" -> 5

(***************************************************************************)
(* rr/record_type.rs, rr/record_class.rs                                   *)
(***************************************************************************)
RecordTypes ==
    {"A", "NS", "MD", "MF", "CNAME", "SOA", "MB", "MG", "MR", "NULL", "WKS",
     "PTR", "HINFO", "MINFO", "MX", "TXT", "AAAA"}

\* into numbering AAAA right after TXT, as the enum's other variants are
RecordType_into_consecutive(rt) ==
    CASE rt = "A" -> 1
      [] rt = "NS" -> 2
      [] rt = "MD" -> 3
      [] rt = "MF" -> 4
      [] rt = "CNAME" -> 5
      [] rt = "SOA" -> 6
      [] rt = "MB" -> 7
      [] rt = "MG" -> 8
      [] rt = "MR" -> 9
      [] rt = "NULL" -> 10
      [] rt = "WKS" -> 11
      [] rt = "PTR" -> 12
      [] rt = "HINFO" -> 13
      [] rt = "MINFO" -> 14
      [] rt = "MX" -> 15
      [] rt = "TXT" -> 16
      [] rt = "AAAA" -> 17

RecordType_into(rt) ==
    CASE rt = "A" -> 1
      [] rt = "NS" -> 2
      [] rt = "MD" -> 3
      [] rt = "MF" -> 4
      [] rt = "CNAME" -> 5
      [] rt = "SOA" -> 6
      [] rt = "MB" -> 7
      [] rt = "MG" -> 8
      [] rt = "MR" -> 9
      [] rt = "NULL" -> 10
      [] rt = "WKS" -> 11
      [] rt = "PTR" -> 12
      [] rt = "HINFO" -> 13
      [] rt = "MINFO" -> 14
      [] rt = "MX" -> 15
      [] rt = "TXT" -> 16
      [] rt = "AAAA" -> 28

RecordType_try_from(value) ==
    CASE value = 1 -> [ok |-> TRUE, val |-> "A"]
      [] value = 2 -> [ok |-> TRUE, val |-> "NS"]
      [] value = 3 -> [ok |-> TRUE, val |-> "MD"]
      [] value = 4 -> [ok |-> TRUE, val |-> "MF"]
      [] value = 5 -> [ok |-> TRUE, val |-> "CNAME"]
      [] value = 6 -> [ok |-> TRUE, val |-> "SOA"]
      [] value = 7 -> [ok |-> TRUE, val |-> "MB"]
      [] value = 8 -> [ok |-> TRUE, val |-> "MG"]
      [] value = 9 -> [ok |-> TRUE, val |-> "MR"]
      [] value = 10 -> [ok |-> TRUE, val |-> "NULL"]
      [] value = 11 -> [ok |-> TRUE, val |-> "WKS"]
      [] value = 12 -> [ok |-> TRUE, val |-> "PTR"]
      [] value = 13 -> [ok |-> TRUE, val |-> "HINFO"]
      [] value = 14 -> [ok |-> TRUE, val |-> "MINFO"]
      [] value = 15 -> [ok |-> TRUE, val |-> "MX"]
      [] value = 16 -> [ok |-> TRUE, val |-> "TXT"]
      [] value = 28 -> [ok |-> TRUE, val |-> "AAAA"]
      [] OTHER -> [ok |-> FALSE, val |-> "none"]

RecordType_as_bitslice(rt) == view_bits(RecordType_into(rt), 16)

Classes == {"IN", "CS", "CH", "HS"}

Class_into(c) ==
    CASE c = "IN" -> 1
      [] c = "CS" -> 2
      [] c = "CH" -> 3
      [] c = "HS" -> 4

\* try_from with a catch-all arm that answers IN
Class_try_from_default(value) ==
    CASE value = 1 -> [ok |-> TRUE, val |-> "IN"]
      [] value = 2 -> [ok |-> TRUE, val |-> "CS"]
      [] value = 3 -> [ok |-> TRUE, val |-> "CH"]
      [] value = 4 -> [ok |-> TRUE, val |-> "HS"]
      [] OTHER -> [ok |-> TRUE, val |-> "IN"]

Class_try_from(value) ==
    CASE value = 1 -> [ok |-> TRUE, val |-> "IN"]
      [] value = 2 -> [ok |-> TRUE, val |-> "CS"]
      [] value = 3 -> [ok |-> TRUE, val |-> "CH"]
      [] value = 4 -> [ok |-> TRUE, val |-> "HS"]
      [] OTHER -> [ok |-> FALSE, val |-> "none"]

Class_as_bitslice(c) == view_bits(Class_into(c), 16)

(***************************************************************************)
(* message/header.rs                                                       *)
(***************************************************************************)
\* the value of dhdr while no header has been decoded
NoHeader ==
    [id |-> 0 - 1, is_query |-> FALSE, opcode |-> "none",
     authoritative_answer |-> FALSE, truncation |-> FALSE,
     recursion_desired |-> FALSE, recursion_available |-> FALSE,
     resp_code |-> "none", question_count |-> 0 - 1, answer_count |-> 0 - 1,
     name_server_count |-> 0 - 1, additional_records_count |-> 0 - 1]

MessageHeader_new(id) ==
    [id |-> id, is_query |-> FALSE, opcode |-> "Query",
     authoritative_answer |-> FALSE, truncation |-> FALSE,
     recursion_desired |-> TRUE, recursion_available |-> FALSE,
     resp_code |-> "NoError", question_count |-> 1, answer_count |-> 0,
     name_server_count |-> 0, additional_records_count |-> 0]

Bit(b) == IF b THEN 1 ELSE 0

\* as_bitvec pushing recursion_available before recursion_desired
MessageHeader_as_bitvec_ra_first(h) ==
    view_bits(h.id, 16)
    \o <<Bit(h.is_query)>>
    \o Opcode_as_bitvec(h.opcode)
    \o <<Bit(h.authoritative_answer)>>
    \o <<Bit(h.truncation)>>
    \o <<Bit(h.recursion_available)>>
    \o <<Bit(h.recursion_desired)>>
    \o <<0, 0, 0>>
    \o ResponseCode_as_bitvec(h.resp_code)
    \o view_bits(h.question_count, 16)
    \o view_bits(h.answer_count, 16)
    \o view_bits(h.name_server_count, 16)
    \o view_bits(h.additional_records_count, 16)

MessageHeader_as_bitvec(h) ==
    view_bits(h.id, 16)
    \o <<Bit(h.is_query)>>
    \o Opcode_as_bitvec(h.opcode)
    \o <<Bit(h.authoritative_answer)>>
    \o <<Bit(h.truncation)>>
    \o <<Bit(h.recursion_desired)>>
    \o <<Bit(h.recursion_available)>>
    \o <<0, 0, 0>>
    \o ResponseCode_as_bitvec(h.resp_code)
    \o view_bits(h.question_count, 16)
    \o view_bits(h.answer_count, 16)
    \o view_bits(h.name_server_count, 16)
    \o view_bits(h.additional_records_count, 16)

\* every parser result is unwrapped and every reserved bit is asserted clear:
\* the function returns Ok or panics, it has no path that returns Err
MessageHeader_deserialize(i) ==
    LET panic == [kind |-> "panic", hdr |-> NoHeader, rest |-> i]
        id == take_u16(i)
        qr == take_bit(id.rest)
        opn == take_nibble(qr.rest)
        opcode == Opcode_try_from(opn.val)
        aa == take_bit(opn.rest)
        tc == take_bit(aa.rest)
        rd == take_bit(tc.rest)
        ra == take_bit(rd.rest)
        z1 == take_bit(ra.rest)
        z2 == take_bit(z1.rest)
        z3 == take_bit(z2.rest)
        rcn == take_nibble(z3.rest)
        rcode == ResponseCode_try_from(rcn.val)
        qdcount == take_u16(rcn.rest)
        ancount == take_u16(qdcount.rest)
        nscount == take_u16(ancount.rest)
        arcount == take_u16(nscount.rest)
    IN  IF ~id.ok \/ ~qr.ok THEN panic
        ELSE IF ~opn.ok \/ ~opcode.ok THEN panic
        ELSE IF ~aa.ok \/ ~tc.ok \/ ~rd.ok \/ ~ra.ok THEN panic
        ELSE IF ~z1.ok \/ z1.val THEN panic
        ELSE IF ~z2.ok \/ z2.val THEN panic
        ELSE IF ~z3.ok \/ z3.val THEN panic
        ELSE IF ~rcn.ok \/ ~rcode.ok THEN panic
        ELSE IF ~qdcount.ok \/ ~ancount.ok \/ ~nscount.ok \/ ~arcount.ok
        THEN panic
        ELSE [kind |-> "ok",
              hdr |-> [id |-> id.val, is_query |-> qr.val,
                       opcode |-> opcode.val,
                       authoritative_answer |-> aa.val, truncation |-> tc.val,
                       recursion_desired |-> rd.val,
                       recursion_available |-> ra.val,
                       resp_code |-> rcode.val,
                       question_count |-> qdcount.val,
                       answer_count |-> ancount.val,
                       name_server_count |-> nscount.val,
                       additional_records_count |-> arcount.val],
              rest |-> arcount.rest]

\* nom::bits over deserialize: Ok((_, header)) => Ok(header),
\* Err(_) => Err(InvalidData "Parsing failed"); a panic passes through
MessageHeader_try_from(value) ==
    LET r == MessageHeader_deserialize([b |-> value, o |-> 0])
    IN  CASE r.kind = "ok" -> [kind |-> "ok", err |-> "none", hdr |-> r.hdr]
          [] r.kind = "panic" ->
                [kind |-> "panic", err |-> "none", hdr |-> NoHeader]
          [] OTHER -> [kind |-> "err", err |-> "InvalidData", hdr |-> NoHeader]

(***************************************************************************)
(* message/question.rs                                                     *)
(***************************************************************************)
\* the loop over self.labels: a label of MAX_LABEL_BYTES bytes or more
\* returns Err; every char of a shorter label is converted to u8 with
\* try_into().unwrap(), which panics on a char above U+00FF.  The length
\* byte is the label's UTF-8 length, the bytes that follow are one per char.
RECURSIVE Question_labels_loop(_, _, _)
Question_labels_loop(labels, k, acc) ==
    IF k > Len(labels)
    THEN [kind |-> "ok", err |-> "none", bytes |-> acc]
    ELSE LET label == labels[k]
             len == str_len(label)
         IN  IF len >= Question_MAX_LABEL_BYTES
             THEN [kind |-> "err", err |-> "LabelTooLong", bytes |-> <<>>]
             ELSE IF \E i \in 1..Len(label) : label[i] > 255
             THEN [kind |-> "panic", err |-> "none", bytes |-> <<>>]
             ELSE Question_labels_loop(labels, k + 1, acc \o <<len>> \o label)

Question_as_bitvec(qq) ==
    LET r == Question_labels_loop(qq.labels, 1, <<>>)
    IN  IF r.kind # "ok"
        THEN [kind |-> r.kind, err |-> r.err, bits |-> <<>>]
        ELSE [kind |-> "ok", err |-> "none",
              bits |-> ExtendEach(r.bytes, 8)
                       \o RecordType_as_bitslice(qq.record_type)
                       \o Class_as_bitslice(qq.record_qclass)]

(***************************************************************************)
(* message/entry.rs                                                        *)
(***************************************************************************)
Entry_new(labels, record_type, record_qclass) ==
    [labels |-> labels, record_type |-> record_type,
     record_qclass |-> record_qclass]

\* the loop over self.labels: the length is converted with
\* u8::try_from(len).unwrap() first, which panics on 256 bytes or more, and
\* tested against 64 after that; the chars are converted as in Question
RECURSIVE Entry_labels_loop(_, _, _)
Entry_labels_loop(labels, k, acc) ==
    IF k > Len(labels)
    THEN [kind |-> "ok", err |-> "none", bytes |-> acc]
    ELSE LET label == labels[k]
             len == str_len(label)
         IN  IF len > 255
             THEN [kind |-> "panic", err |-> "none", bytes |-> <<>>]
             ELSE IF len >= 64
             THEN [kind |-> "err", err |-> "LabelTooLong", bytes |-> <<>>]
             ELSE IF \E i \in 1..Len(label) : label[i] > 255
             THEN [kind |-> "panic", err |-> "none", bytes |-> <<>>]
             ELSE Entry_labels_loop(labels, k + 1, acc \o <<len>> \o label)

Entry_as_bitvec(e) ==
    LET r == Entry_labels_loop(e.labels, 1, <<>>)
    IN  IF r.kind # "ok"
        THEN [kind |-> r.kind, err |-> r.err, bits |-> <<>>]
        ELSE [kind |-> "ok", err |-> "none",
              bits |-> ExtendEach(r.bytes, 8)
                       \o RecordType_as_bitslice(e.record_type)
                       \o Class_as_bitslice(e.record_qclass)]

(***************************************************************************)
(* message/question.rs: the name parser                                    *)
(***************************************************************************)
IsCont(b) == b >= 128 /\ b <= 191

\* the character that the bytes c encode, when they are the well-formed
\* UTF-8 encoding of one character, and -1 otherwise
utf8_char(c) ==
    LET n == Len(c)
    IN  IF n = 1 /\ c[1] < 128 THEN c[1]
        ELSE IF n = 2 /\ c[1] >= 194 /\ c[1] <= 223
        THEN (c[1] - 192) * 64 + (c[2] - 128)
        ELSE IF /\ n = 3 /\ c[1] >= 224 /\ c[1] <= 239
                /\ (c[1] = 224 => c[2] >= 160)
                /\ (c[1] = 237 => c[2] <= 159)
        THEN (c[1] - 224) * 4096 + (c[2] - 128) * 64 + (c[3] - 128)
        ELSE IF /\ n = 4 /\ c[1] >= 240 /\ c[1] <= 244
                /\ (c[1] = 240 => c[2] >= 144)
                /\ (c[1] = 244 => c[2] <= 143)
        THEN (c[1] - 240) * 262144 + (c[2] - 128) * 4096
             + (c[3] - 128) * 64 + (c[4] - 128)
        ELSE 0 - 1

\* std::str::from_utf8: the characters of a well-formed UTF-8 byte sequence.
\* A character starts at every byte that is not a continuation byte; the
\* sequence is well formed when it does not start with a continuation byte
\* and each piece from one start to the next encodes one character.
from_utf8(bs) ==
    LET n == Len(bs)
        IsStart(i) == ~IsCont(bs[i])
        starts == SelectSeq([i \in 1..n |-> i], IsStart)
        m == Len(starts)
        chars == [k \in 1..m |->
                    utf8_char(SubSeq(bs, starts[k],
                                     IF k < m THEN starts[k + 1] - 1 ELSE n))]
    IN  IF n = 0 THEN [ok |-> TRUE, val |-> <<>>]
        ELSE IF IsCont(bs[1]) \/ \E k \in 1..m : chars[k] < 0
        THEN [ok |-> FALSE, val |-> <<>>]
        ELSE [ok |-> TRUE, val |-> chars]

\* be_u8 (Eof on empty input), a length of 64 or more is an error,
\* length_data (not enough bytes is an error), then from_utf8
Question_parse_label(i) ==
    LET bad == [ok |-> FALSE, val |-> <<>>, rest |-> i]
    IN  IF Len(i) = 0 THEN bad
        ELSE IF i[1] >= 64 THEN bad
        ELSE IF Len(i) - 1 < i[1] THEN bad
        ELSE LET s == from_utf8(SubSeq(i, 2, 1 + i[1]))
             IN  IF ~s.ok THEN bad
                 ELSE [ok |-> TRUE, val |-> s.val,
                       rest |-> SubSeq(i, 2 + i[1], Len(i))]

\* the loop of parse_labels_then_zero over the bytes i.0 (the bit offset i.1
\* is not read): every label is pushed, the empty one included, before its
\* length is tested; returns Ok(((i, i.len()), labels))
RECURSIVE Question_parse_loop(_, _)
Question_parse_loop(ix, labels) ==
    LET r == Question_parse_label(ix)
    IN  IF ~r.ok
        THEN [kind |-> "panic", labels |-> <<>>,
              rest |-> [b |-> <<>>, o |-> 0]]
        ELSE IF Len(r.val) = 0
        THEN [kind |-> "ok", labels |-> Append(labels, r.val),
              rest |-> [b |-> r.rest, o |-> Len(r.rest)]]
        ELSE Question_parse_loop(r.rest, Append(labels, r.val))

Question_parse_labels_then_zero(i) == Question_parse_loop(i.b, <<>>)

\* parse_labels_then_zero(i).unwrap(), then the record type and the class,
\* each read with take_nibble (4 bits) from the cursor that
\* parse_labels_then_zero returned and converted with try_from; every
\* result is unwrapped, so the function returns Ok or panics.  The bit
\* offset of that cursor is the number of bytes left after the name
\* (i.len()); the inputs keep it below 8, the offsets take is defined for.
Question_deserialize(i) ==
    LET panic ==
            [kind |-> "panic",
             q |-> [labels |-> <<>>, record_type |-> "none",
                    record_qclass |-> "none"],
             rest |-> i]
        n == Question_parse_labels_then_zero(i)
        t == take_nibble(n.rest)
        record_type == RecordType_try_from(t.val)
        c == take_nibble(t.rest)
        record_qclass == Class_try_from(c.val)
    IN  IF n.kind # "ok" THEN panic
        ELSE IF ~t.ok \/ ~record_type.ok THEN panic
        ELSE IF ~c.ok \/ ~record_qclass.ok THEN panic
        ELSE [kind |-> "ok",
              q |-> [labels |-> n.labels, record_type |-> record_type.val,
                     record_qclass |-> record_qclass.val],
              rest |-> c.rest]

(***************************************************************************)
(* message/message.rs                                                      *)
(***************************************************************************)
\* the value of msg while no Message has been built
NoMessage == [header |-> NoHeader, question |-> <<>>]

NoQuestion == [labels |-> <<>>, record_type |-> "none", record_qclass |-> "none"]

Question_new(labels, record_type, record_qclass) ==
    [labels |-> labels, record_type |-> record_type,
     record_qclass |-> record_qclass]

Message_new(id, domain_name, record_type, record_class) ==
    LET name_len == str_len(domain_name)
        labels == split(domain_name)
    IN  IF name_len > MAX_NAME_BYTES
        THEN [kind |-> "err", err |-> "NameTooLong", msg |-> NoMessage]
        ELSE IF \E k \in 1..Len(labels) :
                    str_len(labels[k]) > Message_MAX_LABEL_BYTES
        THEN [kind |-> "err", err |-> "LabelTooLong", msg |-> NoMessage]
        ELSE [kind |-> "ok", err |-> "none",
              msg |-> [header |-> MessageHeader_new(id),
                       question |->
                           <<Question_new(labels, record_type, record_class)>>]]

\* the questions in order; the first Err is returned
RECURSIVE Message_questions_loop(_, _, _)
Message_questions_loop(qs, k, acc) ==
    IF k > Len(qs)
    THEN [kind |-> "ok", err |-> "none", bits |-> acc]
    ELSE LET r == Question_as_bitvec(qs[k])
         IN  IF r.kind # "ok" THEN r
             ELSE Message_questions_loop(qs, k + 1, acc \o r.bits)

\* as_bitvec extending the bit vector with the header after the questions
Message_as_bitvec_header_last(m) ==
    LET r == Message_questions_loop(m.question, 1, <<>>)
    IN  IF r.kind # "ok" THEN r
        ELSE [kind |-> "ok", err |-> "none",
              bits |-> r.bits \o MessageHeader_as_bitvec(m.header)]

Message_as_bitvec(m) ==
    Message_questions_loop(m.question, 1, MessageHeader_as_bitvec(m.header))

\* as_bitvec().expect(..) then read_to_end
Message_as_vec(m) ==
    LET r == Message_as_bitvec(m)
    IN  IF r.kind = "ok"
        THEN [kind |-> "ok", bits |-> r.bits, bytes |-> read_to_end(r.bits)]
        ELSE [kind |-> "panic", bits |-> <<>>, bytes |-> <<>>]

(***************************************************************************)
(* The inputs the calls are made with.                                     *)
(***************************************************************************)
\* "google.com"
GoogleCom == <<103, 111, 111, 103, 108, 101, 46, 99, 111, 109>>

\* 63 bytes of U+00E9 (2 bytes each) and one "a"; 63 bytes of U+20AC (3 each)
Latin63 == [i \in 1..32 |-> IF i = 32 THEN 97 ELSE 233]

Euro63 == [i \in 1..21 |-> 8364]

\* "google.com", "", "a", "a.", ".a", "a..b", "<U+00E9>.fr", "<U+20AC>.eu",
\* and the two 63-byte labels of wide characters
SmallNames ==
    {GoogleCom, <<>>, <<97>>, <<97, 46>>, <<46, 97>>, <<97, 46, 46, 98>>,
     <<233, 46, 102, 114>>, <<8364, 46, 101, 117>>, Latin63, Euro63}

\* label lengths around the label limit, and short ones to fill a name
LabelLens == {1, 62, 63, 64}

\* the label "aaa...a" of n bytes
LabelOf(n) == [i \in 1..n |-> 97]

\* the labels of the given lengths
GenLabels(lens) == [k \in 1..Len(lens) |-> LabelOf(lens[k])]

\* the sum of the first k entries of lens
RECURSIVE SumTo(_, _)
SumTo(lens, k) == IF k = 0 THEN 0 ELSE SumTo(lens, k - 1) + lens[k]

\* the name made of labels of the given lengths joined with dots
GenName(lens) ==
    LET n == Len(lens)
        dots == {SumTo(lens, k) + k : k \in 1..(n - 1)}
    IN  [i \in 1..(SumTo(lens, n) + n - 1) |->
            IF i \in dots THEN Dot ELSE 97]

LenLists(n) == UNION {[1..k -> LabelLens] : k \in 1..n}

GenNames == {GenName(lens) : lens \in LenLists(MaxLabels)}

Ids == {1, 43981}

\* what Message::new is called with
MessageInputs ==
    (SmallNames \X Ids \X RecordTypes \X Classes)
    \cup (GenNames \X {1} \X {"A"} \X {"IN"})

\* what Question::new is called with: any labels, validated or not
QuestionLabels ==
    {split(n) : n \in SmallNames} \cup {GenLabels(lens) : lens \in LenLists(2)}
    \cup {GenLabels(lens) : lens \in {<<255>>, <<256>>, <<1, 256>>}}

U16Samples == {0, 1, 255, 256, 43981, 65535}

CountSamples == {0, 1, 258, 65535}

\* the headers MessageHeader::new makes, with the four counts then set freely
NewHeaders ==
    {[MessageHeader_new(id) EXCEPT !.question_count = c[1],
                                   !.answer_count = c[2],
                                   !.name_server_count = c[3],
                                   !.additional_records_count = c[4]] :
        id \in U16Samples,
        c \in CountSamples \X CountSamples \X CountSamples \X CountSamples}

\* headers with every combination of flags, opcode and response code
FlagHeaders ==
    {[MessageHeader_new(43981) EXCEPT !.is_query = f[1], !.opcode = f[2],
                                      !.authoritative_answer = f[3],
                                      !.truncation = f[4],
                                      !.recursion_desired = f[5],
                                      !.recursion_available = f[6],
                                      !.resp_code = f[7]] :
        f \in BOOLEAN \X Opcodes \X BOOLEAN \X BOOLEAN \X BOOLEAN \X BOOLEAN
              \X ResponseCodes}

HeaderInputs == NewHeaders \cup FlagHeaders

\* third bytes of a received header: QR, opcode nibble, AA, TC, RD
FlagBytes == {0, 1, 16, 24, 120, 129, 133, 255}

\* received 12-byte headers: every fourth byte (RA, Z, RCODE)
WireHeaders ==
    {<<171, 205, b3, b4, 0, 1, 0, 2, 0, 0, 1, 0>> :
        b3 \in FlagBytes, b4 \in 0..255}

\* received datagrams: a header and the bytes after it, or a cut header
Datagrams ==
    {w \o [i \in 1..k |-> 192] : w \in WireHeaders, k \in 0..MaxExtra}
    \cup {SubSeq(<<171, 205, 129, 128, 0, 1, 0, 2, 0, 0, 1, 0>>, 1, n) :
            n \in 0..(EXPECTED_HEADER_SIZE - 1)}

\* label lists of a received name: none (the root alone), short labels and
\* labels at the 63-byte limit
WireLabels ==
    {<<>>, <<<<97>>>>, split(GoogleCom), <<<<119, 119, 119>>, <<97>>, <<98>>>>}
    \cup {GenLabels(lens) : lens \in [1..2 -> {1, 63}]}

\* a name on the wire: each label after its length byte, then the zero byte
RECURSIVE WireName(_, _)
WireName(labels, k) ==
    IF k > Len(labels) THEN <<0>>
    ELSE <<Len(labels[k])>> \o labels[k] \o WireName(labels, k + 1)

\* what follows a name: nothing, QTYPE and QCLASS as two 16-bit codes, or
\* the bytes 01 10 00 00
WireTails ==
    {<<>>, <<1, 16, 0, 0>>}
    \cup {<<0, RecordType_into(rt), 0, Class_into(c)>> :
            rt \in {"A", "NS", "AAAA"}, c \in {"IN", "CH"}}

\* received bytes that are not a name: a compression pointer (at once and
\* after a label), a length byte of 64, a label that is not UTF-8, a label
\* cut short, a name without its zero byte, and no byte at all
BadNames ==
    {<<192, 12>>, <<3, 119, 119, 119, 192, 12>>, <<64>> \o LabelOf(64) \o <<0>>,
     <<1, 255, 0>>, <<3, 97>>, <<1, 97>>, <<>>}

\* the bytes handed to the question and name decoders; two bytes of UTF-8
\* (U+00E9) make one more well-formed label
QuestionWires ==
    {WireName(ls, 1) \o t \o [i \in 1..k |-> 192] :
        ls \in WireLabels, t \in WireTails, k \in 0..MaxExtra}
    \cup {<<2, 195, 169, 0, 0, 1, 0, 1>>}
    \cup {b \o t : b \in BadNames, t \in {<<>>, <<0, 1, 0, 1>>}}

\* the values of the integer types the conversions take
U16 == 0..65535

U8 == 0..255

(***************************************************************************)
(* The calls.                                                              *)
(***************************************************************************)
NoCursor == [b |-> <<>>, o |-> 0]

NoRet == [kind |-> "none", err |-> "none"]

\* a conversion: the enum, the variant converted (or "none"), the integer
\* code, the variant's bit pattern, what try_from answered for the code and
\* the code of the variant it answered (-1 when it answered Err)
Conversion(enum, variant, code, bits, back, recode) ==
    [enum |-> enum, variant |-> variant, code |-> code, bits |-> bits,
     back |-> back, recode |-> recode]

NoConv ==
    Conversion("none", "none", 0 - 1, <<>>, [ok |-> FALSE, val |-> "none"],
               0 - 1)

NoEncoding == [kind |-> "none", err |-> "none", bits |-> <<>>]

Init ==
    /\ pc = "idle"
    /\ name = <<>>
    /\ msg = NoMessage
    /\ hdr = NoHeader
    /\ q = NoQuestion
    /\ bv = <<>>
    /\ buf = <<>>
    /\ ret = NoRet
    /\ dhdr = NoHeader
    /\ dlabels = <<>>
    /\ drest = NoCursor
    /\ conv = NoConv
    /\ dq = NoQuestion
    /\ eret = NoEncoding

\* main: Message::new(query_id, domain_name, record_type, record_class)
BuildMessage ==
    /\ pc = "idle"
    /\ \E in \in MessageInputs :
          LET r == Message_new(in[2], in[1], in[3], in[4])
          IN  /\ name' = in[1]
              /\ msg' = r.msg
              /\ ret' = [kind |-> r.kind, err |-> r.err]
    /\ pc' = "built"
    /\ UNCHANGED <<hdr, q, bv, buf, dhdr, dlabels, drest,
                 conv, dq, eret>>

\* main: message.as_vec() of the Message that was built
SendMessage ==
    /\ pc = "built"
    /\ ret.kind = "ok"
    /\ LET r == Message_as_vec(msg)
       IN  /\ bv' = r.bits
           /\ buf' = r.bytes
           /\ ret' = [kind |-> r.kind, err |-> "none"]
    /\ pc' = "sent"
    /\ UNCHANGED <<name, msg, hdr, q, dhdr, dlabels, drest,
                 conv, dq, eret>>

\* header.as_bitvec()
EncodeHeader ==
    /\ pc = "idle"
    /\ \E h \in HeaderInputs :
          /\ hdr' = h
          /\ bv' = MessageHeader_as_bitvec(h)
    /\ ret' = [kind |-> "ok", err |-> "none"]
    /\ pc' = "henc"
    /\ UNCHANGED <<name, msg, q, buf, dhdr, dlabels, drest,
                 conv, dq, eret>>

\* the encoded header read out as bytes and handed to MessageHeader::try_from
DecodeHeader ==
    /\ pc = "henc"
    /\ LET bytes == read_to_end(bv)
           r == MessageHeader_try_from(bytes)
       IN  /\ buf' = bytes
           /\ dhdr' = r.hdr
           /\ ret' = [kind |-> r.kind, err |-> r.err]
    /\ pc' = "hdec"
    /\ UNCHANGED <<name, msg, hdr, q, bv, dlabels, drest,
                 conv, dq, eret>>

\* main: socket.recv then MessageHeader::try_from(response_buf[..received])
RecvHeader ==
    /\ pc = "idle"
    /\ \E d \in Datagrams :
          LET r == MessageHeader_try_from(d)
          IN  /\ buf' = d
              /\ dhdr' = r.hdr
              /\ ret' = [kind |-> r.kind, err |-> r.err]
    /\ pc' = "hrecv"
    /\ UNCHANGED <<name, msg, hdr, q, bv, dlabels, drest,
                 conv, dq, eret>>

\* Question::new(labels, record_type, record_class).as_bitvec()
EncodeQuestion ==
    /\ pc = "idle"
    /\ \E ls \in QuestionLabels, rt \in RecordTypes, c \in Classes :
          LET qq == Question_new(ls, rt, c)
              r == Question_as_bitvec(qq)
          IN  /\ q' = qq
              /\ bv' = r.bits
              /\ ret' = [kind |-> r.kind, err |-> r.err]
    /\ pc' = "qenc"
    /\ UNCHANGED <<name, msg, hdr, buf, dhdr, dlabels, drest,
                 conv, dq, eret>>

\* the encoded question read out as bytes and handed to
\* Question::parse_labels_then_zero: either all of them, as
\* Question::deserialize hands them on, or the name's bytes alone, without
\* the four bytes of QTYPE and QCLASS
ParseName ==
    /\ pc = "qenc"
    /\ ret.kind = "ok"
    /\ \E cut \in {0, 4} :
          LET all == read_to_end(bv)
              bytes == SubSeq(all, 1, Len(all) - cut)
              r == Question_parse_labels_then_zero([b |-> bytes, o |-> 0])
          IN  /\ buf' = bytes
              /\ dlabels' = r.labels
              /\ drest' = r.rest
              /\ ret' = [kind |-> r.kind, err |-> "none"]
    /\ pc' = "qdec"
    /\ UNCHANGED <<name, msg, hdr, q, bv, dhdr,
                 conv, dq, eret>>

\* Message::deserialize: Question::deserialize on the received bytes
RecvQuestion ==
    /\ pc = "idle"
    /\ \E w \in QuestionWires :
          LET r == Question_deserialize([b |-> w, o |-> 0])
          IN  /\ buf' = w
              /\ dq' = r.q
              /\ drest' = r.rest
              /\ ret' = [kind |-> r.kind, err |-> "none"]
    /\ pc' = "qrecv"
    /\ UNCHANGED <<name, msg, hdr, q, bv, dhdr, dlabels, conv, eret>>

\* Question::parse_labels_then_zero on the received bytes
RecvName ==
    /\ pc = "idle"
    /\ \E w \in QuestionWires :
          LET r == Question_parse_labels_then_zero([b |-> w, o |-> 0])
          IN  /\ buf' = w
              /\ dlabels' = r.labels
              /\ drest' = r.rest
              /\ ret' = [kind |-> r.kind, err |-> "none"]
    /\ pc' = "nrecv"
    /\ UNCHANGED <<name, msg, hdr, q, bv, dhdr, conv, dq, eret>>

\* Entry::new(labels, record_type, record_class).as_bitvec() with the
\* arguments the Question was made of
EncodeEntry ==
    /\ pc = "qenc"
    /\ eret' = Entry_as_bitvec(Entry_new(q.labels, q.record_type,
                                         q.record_qclass))
    /\ pc' = "eenc"
    /\ UNCHANGED <<name, msg, hdr, q, bv, buf, ret, dhdr, dlabels, drest,
                   conv, dq>>

\* a variant converted to its code with into(), to its bit pattern with
\* as_bitslice / as_bitvec, and the code converted back with try_from
ConvertVariant ==
    /\ pc = "idle"
    /\ \/ \E v \in RecordTypes :
            conv' = Conversion("RecordType", v, RecordType_into(v),
                               RecordType_as_bitslice(v),
                               RecordType_try_from(RecordType_into(v)), 0 - 1)
       \/ \E v \in Classes :
            conv' = Conversion("Class", v, Class_into(v), Class_as_bitslice(v),
                               Class_try_from(Class_into(v)), 0 - 1)
       \/ \E v \in Opcodes :
            conv' = Conversion("Opcode", v, Opcode_into(v),
                               Opcode_as_bitvec(v),
                               Opcode_try_from(Opcode_into(v)), 0 - 1)
       \/ \E v \in ResponseCodes :
            conv' = Conversion("ResponseCode", v, ResponseCode_into(v),
                               ResponseCode_as_bitvec(v),
                               ResponseCode_try_from(ResponseCode_into(v)),
                               0 - 1)
    /\ pc' = "conv"
    /\ UNCHANGED <<name, msg, hdr, q, bv, buf, ret, dhdr, dlabels, drest, dq,
                   eret>>

\* an integer code converted with try_from, and the variant it answered
\* converted back with into()
ConvertCode ==
    /\ pc = "idle"
    /\ \/ \E c \in U16 :
            LET r == RecordType_try_from(c)
            IN  conv' = Conversion("RecordType", "none", c, <<>>, r,
                            IF r.ok THEN RecordType_into(r.val) ELSE 0 - 1)
       \/ \E c \in U16 :
            LET r == Class_try_from(c)
            IN  conv' = Conversion("Class", "none", c, <<>>, r,
                            IF r.ok THEN Class_into(r.val) ELSE 0 - 1)
       \/ \E c \in U8 :
            LET r == Opcode_try_from(c)
            IN  conv' = Conversion("Opcode", "none", c, <<>>, r,
                            IF r.ok THEN Opcode_into(r.val) ELSE 0 - 1)
       \/ \E c \in U8 :
            LET r == ResponseCode_try_from(c)
            IN  conv' = Conversion("ResponseCode", "none", c, <<>>, r,
                            IF r.ok THEN ResponseCode_into(r.val) ELSE 0 - 1)
    /\ pc' = "code"
    /\ UNCHANGED <<name, msg, hdr, q, bv, buf, ret, dhdr, dlabels, drest, dq,
                   eret>>

Next ==
    \/ BuildMessage
    \/ SendMessage
    \/ EncodeHeader
    \/ DecodeHeader
    \/ RecvHeader
    \/ EncodeQuestion
    \/ ParseName
    \/ ConvertVariant
    \/ ConvertCode
    \/ RecvQuestion
    \/ RecvName
    \/ EncodeEntry

Spec == Init /\ [][Next]_vars

(***************************************************************************)
(* Properties.                                                             *)
(***************************************************************************)
\* the bytes a label list takes on the wire: one length byte and the
\* label's bytes, for each label
RECURSIVE LabelBytes(_, _)
LabelBytes(labels, k) ==
    IF k = 0 THEN 0 ELSE LabelBytes(labels, k - 1) + 1 + str_len(labels[k])

\* the value of byte k (1-based) of a bit vector
ByteOf(bits, k) == SeqValue(SubSeq(bits, 8 * k - 7, 8 * k))

\* no label of the list is empty (a name's labels are non-empty)
NoEmptyLabel(labels) == \A k \in 1..Len(labels) : Len(labels[k]) > 0

\* the longest label of the list, in bytes
MaxLabelLen(labels) ==
    IF Len(labels) = 0 THEN 0
    ELSE CHOOSE n \in {str_len(labels[k]) : k \in 1..Len(labels)} :
            \A k \in 1..Len(labels) : str_len(labels[k]) <= n

\* C1: every question that Question::as_bitvec encodes carries exactly one
\* zero byte (the root label) after the bytes of its last label and before
\* the 16-bit QTYPE, so that its length is sum(1 + len(label)) + 1 + 4 bytes.
C1_RootByteEmitted ==
    (pc = "qenc" /\ ret.kind = "ok" /\ NoEmptyLabel(q.labels)) =>
        LET n == LabelBytes(q.labels, Len(q.labels))
        IN  /\ Len(bv) = 8 * (n + 1 + 4)
            /\ ByteOf(bv, n + 1) = 0
            /\ SubSeq(bv, 8 * (n + 1) + 1, 8 * (n + 1) + 16)
                   = view_bits(RecordType_into(q.record_type), 16)

\* the three reserved bits of a 12-byte header: bits 1..3 of its fourth byte
ZBits(bytes) == (bytes[4] \div 16) % 8

\* the opcode nibble: bits 1..4 of the third byte
OpcodeNibble(bytes) == (bytes[3] \div 8) % 16

\* the response-code nibble: the low four bits of the fourth byte
RcodeNibble(bytes) == bytes[4] % 16

\* C2: a received 12-byte header with a reserved bit set is answered with an
\* error value (any Err counts here): no panic, no accepted header.
C2_ReservedBitsRejected ==
    (pc = "hrecv" /\ Len(buf) = EXPECTED_HEADER_SIZE /\ ZBits(buf) # 0) =>
        ret.kind = "err"

\* the header is MessageHeader::new(id) with only its four counts changed
BuiltByNew(h) ==
    h = [MessageHeader_new(h.id) EXCEPT
            !.question_count = h.question_count,
            !.answer_count = h.answer_count,
            !.name_server_count = h.name_server_count,
            !.additional_records_count = h.additional_records_count]

\* C3: decoding the 96 bits that as_bitvec produced for a header built by
\* MessageHeader::new(id), with any four counts, succeeds and gives back
\* each of the twelve fields.
C3_HeaderRoundTrip ==
    (pc = "hdec" /\ BuiltByNew(hdr)) =>
        /\ ret.kind = "ok"
        /\ dhdr.id = hdr.id
        /\ dhdr.is_query = hdr.is_query
        /\ dhdr.opcode = hdr.opcode
        /\ dhdr.authoritative_answer = hdr.authoritative_answer
        /\ dhdr.truncation = hdr.truncation
        /\ dhdr.recursion_desired = hdr.recursion_desired
        /\ dhdr.recursion_available = hdr.recursion_available
        /\ dhdr.resp_code = hdr.resp_code
        /\ dhdr.question_count = hdr.question_count
        /\ dhdr.answer_count = hdr.answer_count
        /\ dhdr.name_server_count = hdr.name_server_count
        /\ dhdr.additional_records_count = hdr.additional_records_count

\* a header from new(id) with counts whose two bytes differ has been decoded
C3_Witness ==
    /\ pc = "hdec"
    /\ BuiltByNew(hdr)
    /\ hdr.id = 43981
    /\ hdr.question_count = 258
    /\ hdr.additional_records_count = 65535
    /\ ret.kind = "ok"
    /\ dhdr.question_count = 258

\* C4: as_bitvec of any header yields exactly 96 bits, most significant bit
\* first in each field, in the order id(16) QR(1) opcode(4) AA TC RD RA
\* Z(3, all zero) rcode(4) qdcount(16) ancount(16) nscount(16) arcount(16),
\* and it returns a value.
C4_HeaderWireOrder ==
    (pc = "henc") =>
        /\ ret.kind = "ok"
        /\ Len(bv) = 96
        /\ \A i \in 1..Len(bv) : bv[i] \in {0, 1}
        /\ SeqValue(SubSeq(bv, 1, 16)) = hdr.id
        /\ bv[17] = Bit(hdr.is_query)
        /\ SeqValue(SubSeq(bv, 18, 21)) = Opcode_into(hdr.opcode)
        /\ bv[22] = Bit(hdr.authoritative_answer)
        /\ bv[23] = Bit(hdr.truncation)
        /\ bv[24] = Bit(hdr.recursion_desired)
        /\ bv[25] = Bit(hdr.recursion_available)
        /\ SubSeq(bv, 26, 28) = <<0, 0, 0>>
        /\ SeqValue(SubSeq(bv, 29, 32)) = ResponseCode_into(hdr.resp_code)
        /\ SeqValue(SubSeq(bv, 33, 48)) = hdr.question_count
        /\ SeqValue(SubSeq(bv, 49, 64)) = hdr.answer_count
        /\ SeqValue(SubSeq(bv, 65, 80)) = hdr.name_server_count
        /\ SeqValue(SubSeq(bv, 81, 96)) = hdr.additional_records_count

\* a header with every flag set, the last opcode and the last response code
\* has been encoded
C4_Witness ==
    /\ pc = "henc"
    /\ hdr.is_query
    /\ hdr.opcode = "Status"
    /\ hdr.authoritative_answer /\ hdr.truncation
    /\ ~hdr.recursion_desired /\ hdr.recursion_available
    /\ hdr.resp_code = "Refused"
    /\ Len(bv) = 96

\* C5: Message::new(1, "google.com", A, IN) then as_vec yields the 28 bytes
\* 00 01 00 00 01 00 00 00 00 00 00 00, 06 g o o g l e 03 c o m 00 00 01 00 01.
C5_GoogleComBytes ==
    (/\ pc = "sent"
     /\ name = GoogleCom
     /\ msg.header.id = 1
     /\ msg.question[1].record_type = "A"
     /\ msg.question[1].record_qclass = "IN") =>
        /\ ret.kind = "ok"
        /\ buf = <<0, 1, 0, 0, 1, 0, 0, 0, 0, 0, 0, 0,
                   6, 103, 111, 111, 103, 108, 101, 3, 99, 111, 109, 0,
                   0, 1, 0, 1>>

\* C6: for labels of 1 to 63 bytes each, at most 255 bytes encoded in all
\* (root byte included), parsing the bytes that the question encoder
\* produced gives back exactly the labels, in order, and no label more.
C6_NameRoundTrip ==
    (/\ pc = "qdec"
     /\ NoEmptyLabel(q.labels)
     /\ MaxLabelLen(q.labels) <= 63
     /\ LabelBytes(q.labels, Len(q.labels)) + 1 <= 255) =>
        /\ ret.kind = "ok"
        /\ dlabels = q.labels

\* the length of a name on the wire: each label with its length byte, and
\* the root byte
EncodedNameLen(s) == LabelBytes(split(s), Len(split(s))) + 1

\* C7: Message::new accepts a name (of labels within the label limit) whose
\* encoded length is exactly 255 bytes and answers NameTooLong to one whose
\* encoded length is 256 bytes.
C7_NameLengthBoundary ==
    (pc = "built" /\ MaxLabelLen(split(name)) <= 63) =>
        /\ (EncodedNameLen(name) = 255 => ret.kind = "ok")
        /\ (EncodedNameLen(name) = 256 =>
                ret.kind = "err" /\ ret.err = "NameTooLong")

\* C8: a name (within the 255-byte limit) whose longest label is exactly 63
\* bytes is accepted by Message::new and encoded by Question::as_bitvec,
\* also when reached through Message::as_vec; a name with a label of 64
\* bytes is answered with the label-too-long error by Message::new and by
\* Question::as_bitvec.
C8_LabelBoundary ==
    /\ (pc = "built" /\ str_len(name) <= 255
            /\ MaxLabelLen(split(name)) = 63) => ret.kind = "ok"
    /\ (pc = "built" /\ str_len(name) <= 255
            /\ \E k \in 1..Len(split(name)) : str_len(split(name)[k]) = 64) =>
            (ret.kind = "err" /\ ret.err = "LabelTooLong")
    /\ (pc = "sent" /\ MaxLabelLen(msg.question[1].labels) = 63) =>
            ret.kind = "ok"
    /\ (pc = "qenc" /\ MaxLabelLen(q.labels) = 63) => ret.kind = "ok"
    /\ (pc = "qenc" /\ MaxLabelLen(q.labels) = 64) =>
            (ret.kind = "err" /\ ret.err = "LabelTooLong")

\* C9: a received 12-byte header whose opcode nibble is not 0, 1 or 2, or
\* whose response-code nibble is not 0..5, is answered with an error value
\* (any Err counts here): no panic, no default Opcode or ResponseCode.
C9_UnsupportedCodeRejected ==
    (/\ pc = "hrecv"
     /\ Len(buf) = EXPECTED_HEADER_SIZE
     /\ (OpcodeNibble(buf) > 2 \/ RcodeNibble(buf) > 5)) =>
        ret.kind = "err"

\* C10: a received input of fewer than 12 bytes, the empty one included, is
\* answered with an error value (any Err counts here) and no panic.
C10_TruncatedRejected ==
    (pc = "hrecv" /\ Len(buf) < EXPECTED_HEADER_SIZE) => ret.kind = "err"

\* the codes of the four tables as the claims list them
TableOf(enum) ==
    CASE enum = "RecordType" -> (1..16) \cup {28}
      [] enum = "Class" -> 1..4
      [] enum = "Opcode" -> 0..2
      [] enum = "ResponseCode" -> 0..5

\* C11: for every variant v of the four enums, try_from of the code that
\* into() gives for v answers v; and for every code c of the table,
\* into() of the variant that try_from answers for c is c.
C11_EnumRoundTrip ==
    /\ (pc = "conv") =>
            (conv.back.ok /\ conv.back.val = conv.variant)
    /\ (pc = "code" /\ conv.code \in TableOf(conv.enum)) =>
            (conv.back.ok /\ conv.recode = conv.code)

\* AAAA, the one variant whose code does not follow its neighbour's, has
\* been converted to 28 and back
C11_Witness ==
    /\ pc = "conv"
    /\ conv.enum = "RecordType"
    /\ conv.variant = "AAAA"
    /\ conv.code = 28
    /\ conv.back.ok
    /\ conv.back.val = "AAAA"

\* C12: try_from answers an error, and no variant, for every integer outside
\* the table: every u16 other than 1..16 and 28 for RecordType, every u16
\* other than 1..4 for Class, every u8 other than 0..2 for Opcode and every
\* u8 other than 0..5 for ResponseCode.
C12_ClosedEnums ==
    (pc = "code" /\ conv.code \notin TableOf(conv.enum)) =>
        (~conv.back.ok /\ conv.back.val = "none" /\ conv.recode = 0 - 1)

\* 17, the code between TXT and AAAA, has been refused by RecordType
C12_Witness ==
    /\ pc = "code"
    /\ conv.enum = "RecordType"
    /\ conv.code = 17
    /\ ~conv.back.ok

\* the width of an enum's bit pattern
WidthOf(enum) ==
    IF enum \in {"RecordType", "Class"} THEN 16 ELSE 4

\* C13: for every variant v, the bit pattern of as_bitslice (RecordType,
\* Class: 16 bits) or as_bitvec (Opcode, ResponseCode: 4 bits) is the
\* fixed-width binary representation, most significant bit first, of the
\* integer that into() returns for v.
C13_BitPatternIsCode ==
    (pc = "conv") =>
        /\ Len(conv.bits) = WidthOf(conv.enum)
        /\ \A i \in 1..Len(conv.bits) : conv.bits[i] \in {0, 1}
        /\ SeqValue(conv.bits) = conv.code
        /\ conv.bits = [i \in 1..WidthOf(conv.enum) |->
                          (conv.code \div (2 ^ (WidthOf(conv.enum) - i))) % 2]

\* NotImplemented has been converted to the code 4 and the pattern 0100
C13_Witness ==
    /\ pc = "conv"
    /\ conv.enum = "ResponseCode"
    /\ conv.variant = "NotImplemented"
    /\ conv.code = 4
    /\ conv.bits = <<0, 1, 0, 0>>

\* the name at the head of received bytes, read as the format defines it:
\* labels of 1 to 63 bytes after their length bytes up to the zero byte
\* ("name", with the position of the byte after it), a length byte of 64
\* or more ("pointer"), or bytes that end too soon ("short")
RECURSIVE RefName(_, _, _)
RefName(bytes, k, acc) ==
    IF k > Len(bytes) THEN [kind |-> "short", labels |-> acc, next |-> k]
    ELSE IF bytes[k] = 0
    THEN [kind |-> "name", labels |-> acc, next |-> k + 1]
    ELSE IF bytes[k] >= 64
    THEN [kind |-> "pointer", labels |-> acc, next |-> k]
    ELSE IF k + bytes[k] > Len(bytes)
    THEN [kind |-> "short", labels |-> acc, next |-> k]
    ELSE RefName(bytes, k + 1 + bytes[k],
                 Append(acc, SubSeq(bytes, k + 1, k + bytes[k])))

\* every byte of every label is ASCII, so that bytes and characters agree
AsciiLabels(labels) ==
    \A k \in 1..Len(labels) : \A i \in 1..Len(labels[k]) : labels[k][i] < 128

\* the 16-bit value of the two bytes of bytes from position k
U16At(bytes, k) == 256 * bytes[k] + bytes[k + 1]

\* C14: after a name, Question::deserialize reads 16 bits as the RecordType
\* code and 16 bits as the RecordClass code: when both codes are in their
\* tables it returns their variants (00 01, 00 01 gives A, IN) and leaves
\* the cursor 32 bits after the name, at bit offset 0.
C14_TypeClassAre16Bits ==
    LET n == RefName(buf, 1, <<>>)
    IN  (/\ pc = "qrecv"
         /\ n.kind = "name"
         /\ AsciiLabels(n.labels)
         /\ Len(buf) >= n.next + 3
         /\ U16At(buf, n.next) \in TableOf("RecordType")
         /\ U16At(buf, n.next + 2) \in TableOf("Class")) =>
            /\ ret.kind = "ok"
            /\ RecordType_into(dq.record_type) = U16At(buf, n.next)
            /\ Class_into(dq.record_qclass) = U16At(buf, n.next + 2)
            /\ drest = [b |-> SubSeq(buf, n.next + 4, Len(buf)), o |-> 0]

\* C15: for received bytes that are labels of 1 to 63 bytes, each after its
\* length byte, then a zero byte, parse_labels_then_zero returns exactly
\* the labels before the zero byte, in order, without the empty root label,
\* and leaves the cursor on the byte after the zero byte, at bit offset 0.
C15_NameDecode ==
    LET n == RefName(buf, 1, <<>>)
    IN  (/\ pc = "nrecv"
         /\ n.kind = "name"
         /\ Len(n.labels) >= 1
         /\ AsciiLabels(n.labels)) =>
            /\ ret.kind = "ok"
            /\ dlabels = n.labels
            /\ drest = [b |-> SubSeq(buf, n.next, Len(buf)), o |-> 0]

\* C16: when name decoding meets a length byte of 64 or more, it returns an
\* error value to its caller (any Err counts here): it does not panic and
\* does not take the byte for a label length.
C16_PointerRejected ==
    (pc = "nrecv" /\ RefName(buf, 1, <<>>).kind = "pointer") =>
        ret.kind = "err"

\* C17: every Message that Message::new returns holds exactly one question,
\* whose labels are the pieces of the input string between its dots, in
\* order, each of them non-empty and of at most 63 bytes.
C17_BuiltLabels ==
    (pc = "built" /\ ret.kind = "ok") =>
        /\ Len(msg.question) = 1
        /\ msg.question[1].labels = split(name)
        /\ NoEmptyLabel(msg.question[1].labels)
        /\ MaxLabelLen(msg.question[1].labels) <= 63

\* C18: the bits of a Message are the 96 bits of its header followed by
\* the bits of its question, their number is a multiple of 8, and as_vec
\* returns them as that number / 8 bytes, 12 of them the header, none
\* padded: each byte is 8 consecutive bits.
C18_MessageEncode ==
    (pc = "sent") =>
        LET h == MessageHeader_as_bitvec(msg.header)
            qr == Question_as_bitvec(msg.question[1])
        IN  (qr.kind = "ok") =>
                /\ ret.kind = "ok"
                /\ Len(h) = 96
                /\ bv = h \o qr.bits
                /\ Len(bv) % 8 = 0
                /\ Len(buf) = Len(bv) \div 8
                /\ Len(buf) = EXPECTED_HEADER_SIZE + (Len(qr.bits) \div 8)
                /\ \A k \in 1..Len(buf) : buf[k] = ByteOf(bv, k)

\* the message for "google.com" has been encoded to more than a header
C18_Witness ==
    /\ pc = "sent"
    /\ name = GoogleCom
    /\ msg.header.id = 43981
    /\ ret.kind = "ok"
    /\ Len(bv) = 8 * Len(buf)
    /\ Len(buf) > EXPECTED_HEADER_SIZE
    /\ buf[1] = 171 /\ buf[2] = 205

\* the UTF-8 bytes of one character
Utf8Of(c) ==
    IF c < 128 THEN <<c>>
    ELSE IF c < 2048 THEN <<192 + (c \div 64), 128 + (c % 64)>>
    ELSE IF c < 65536
    THEN <<224 + (c \div 4096), 128 + ((c \div 64) % 64), 128 + (c % 64)>>
    ELSE <<240 + (c \div 262144), 128 + ((c \div 4096) % 64),
           128 + ((c \div 64) % 64), 128 + (c % 64)>>

\* the bytes of a string: the UTF-8 bytes of its characters from the i-th on
RECURSIVE StrBytes(_, _)
StrBytes(str, i) ==
    IF i > Len(str) THEN <<>> ELSE Utf8Of(str[i]) \o StrBytes(str, i + 1)

\* the labels from the k-th on, each as its number of bytes, in one byte,
\* followed by its bytes
RECURSIVE LengthPrefixed(_, _)
LengthPrefixed(labels, k) ==
    IF k > Len(labels) THEN <<>>
    ELSE LET bytes == StrBytes(labels[k], 1)
         IN  <<Len(bytes)>> \o bytes \o LengthPrefixed(labels, k + 1)

\* C19: for every label list whose labels are under 64 bytes, both
\* Question::as_bitvec and Entry::as_bitvec return the labels in list
\* order, each as an 8-bit length followed by the label's bytes, and after
\* them, as the last 32 bits, the 16-bit pattern of the RecordType and the
\* 16-bit pattern of the RecordClass.
C19_QuestionEncodeOrder ==
    (pc = "eenc" /\ MaxLabelLen(q.labels) < 64) =>
        LET expected ==
                ExtendEach(LengthPrefixed(q.labels, 1), 8)
                \o view_bits(RecordType_into(q.record_type), 16)
                \o view_bits(Class_into(q.record_qclass), 16)
        IN  /\ ret.kind = "ok"
            /\ bv = expected
            /\ eret.kind = "ok"
            /\ eret.bits = expected

\* C20: for every label list, RecordType and RecordClass, Entry::as_bitvec
\* and Question::as_bitvec have the same outcome: the same bits, or the
\* label-too-long error from both; neither panics where the other returns.
C20_EntryIsQuestion ==
    (pc = "eenc") =>
        /\ eret.kind = ret.kind
        /\ eret.err = ret.err
        /\ eret.bits = bv

\* the position reached in bytes from position p by stepping over n labels,
\* each by its length byte and the number of bytes that byte announces
RECURSIVE StepOver(_, _, _)
StepOver(bytes, p, n) ==
    IF n = 0 THEN p
    ELSE IF p > Len(bytes) THEN 0
    ELSE StepOver(bytes, p + 1 + bytes[p], n - 1)

\* C21: for every label list that Question::as_bitvec accepts (labels under
\* 64 bytes, non-ASCII characters included) the encoder returns a value,
\* and the length byte emitted for each label is the number of bytes
\* emitted for that label: stepping over the output label by label, by the
\* length bytes, ends on the first of the four bytes of QTYPE and QCLASS.
C21_LengthPrefixMatchesBytes ==
    (pc = "qenc" /\ MaxLabelLen(q.labels) < 64) =>
        /\ ret.kind = "ok"
        /\ LET bytes == read_to_end(bv)
           IN  StepOver(bytes, 1, Len(q.labels)) = Len(bytes) - 3

====
